---- MODULE Spec2Model ----
(***************************************************************************)
(* Model of the two scraping scripts of web-scraper-toolkit:               *)
(*   src/reddit_scraper.py  RedditScraper (_fetch_json, pagination,        *)
(*                          timestamp chunking, checkpoint)                *)
(*   src/market_scraper.py  fetch_html and the market orchestrator         *)
(*                                                                         *)
(* Time is counted in seconds for the fetchers' sleeps and in hours for    *)
(* the scraper's dates (a day is 24 hours).                                *)
(***************************************************************************)
EXTENDS Integers, Sequences, FiniteSets, TLC

None == "None"

\* ------------------------------------------------------------------------
\* Bounds of the model
\* ------------------------------------------------------------------------
\* distinct response bodies a server may send to one fetch call
NumBodies == 2
\* distinct post identifiers the server may serve
NumIds == 2
\* children of one listing page (the requests ask for limit=100)
MaxItems == 2
\* requests of one pagination loop: the server's cursor chain ends by then
MaxPages == 2
\* the same, in the runs whose requests are logged
MaxChainPages == 3
\* distinct non-empty "after" tokens
NumCursors == 2
\* start_date and end_date of a scrape() run lie within day 0..MaxDay
MaxDay == 2
\* start_date and end_date of a chunked run lie within day 0..MaxChunkDay
MaxChunkDay == 15
\* a page yields at most so many deals
MaxDeals == 2

\* ------------------------------------------------------------------------
\* Program constants
\* ------------------------------------------------------------------------
\* reddit_scraper.py: max_retries = 3 (local of _fetch_json)
max_retries == 3
\* market_scraper.py: CONFIG["max_retries"]
CONFIG_max_retries == 3
\* market_scraper.py: CONFIG["base_delay"] = (2, 5)
base_delay_min == 2
base_delay_max == 5
\* reddit_scraper.py: default of resp.headers.get('Retry-After', 60)
retry_after_default == 60
\* reddit_scraper.py: asyncio.sleep(10) after a timeout
timeout_sleep == 10
\* reddit_scraper.py: asyncio.sleep(5) after another status or exception
error_sleep == 5
\* reddit_scraper.py: chunk_days = 7
chunk_days == 7
\* reddit_scraper.py: "count % 100 == 0" before a periodic checkpoint
checkpoint_every == 100
\* reddit_scraper.py: params = {'limit': 100}
page_limit == 100

\* ------------------------------------------------------------------------
\* HTTP responses as the fetchers see them
\* ------------------------------------------------------------------------
\* values are tagged pairs, so that any two of them can be compared
Bodies == {<<"body", i>> : i \in 1..NumBodies}
NoBody == <<"None", 0>>
\* a 200 whose body cannot be decoded (resp.json() / response.text() raises)
BadBody == <<"undecodable", 0>>
\* Retry-After header of a 429: absent, not an integer (an HTTP date), or n s
NoHeader == <<"absent", 0>>
BadHeader == <<"http-date", 0>>
RetryAfterSecs == {0, 5, 13, 60}
RetryAfterHeaders == {NoHeader, BadHeader} \cup {<<"secs", n>> : n \in RetryAfterSecs}

Resp(k, b, ra) == [kind |-> k, body |-> b, retry_after |-> ra]

Responses ==
    {Resp("200", b, NoHeader) : b \in Bodies \cup {BadBody}}
      \cup {Resp("429", NoBody, h) : h \in RetryAfterHeaders}
      \cup {Resp(k, NoBody, NoHeader) : k \in {"403", "other", "timeout", "error"}}

\* The exception the body of the try block raises for a response, or None.
\*   timeout -> asyncio.TimeoutError; connection error -> aiohttp.ClientError;
\*   undecodable 200 body -> ContentTypeError / UnicodeDecodeError
TryBodyRaises(resp) ==
    CASE resp.kind = "timeout" -> "TimeoutError"
      [] resp.kind = "error" -> "ClientError"
      [] resp.kind = "200" /\ resp.body = BadBody -> "DecodeError"
      [] OTHER -> None

\* int(resp.headers.get('Retry-After', 60)) of _fetch_json: the parsed value,
\* or the ValueError int() raises on a header that is not an integer
ParseRetryAfter(h) ==
    IF h = NoHeader THEN [exc |-> None, value |-> retry_after_default]
    ELSE IF h = BadHeader THEN [exc |-> "ValueError", value |-> 0]
    ELSE [exc |-> None, value |-> h[2]]

\* "except Exception" catches every class deriving from Exception
ExceptionClasses == {"TimeoutError", "ClientError", "DecodeError", "ValueError"}

ExceptException_ClientOnly(e) == e = "ClientError"

ExceptException(e) == e \in ExceptionClasses

\* ------------------------------------------------------------------------
\* RedditScraper._fetch_json: one iteration of "for attempt in range(max_retries)"
\* ------------------------------------------------------------------------
\* what an iteration does: return a value, propagate an exception, or sleep
\* and go on with the next attempt
IterReturn(v) == [act |-> "return", value |-> v, sleep |-> 0, exc |-> None]
IterRaise(e) == [act |-> "raise", value |-> NoBody, sleep |-> 0, exc |-> e]
IterRetry(s) == [act |-> "retry", value |-> NoBody, sleep |-> s, exc |-> None]

FetchJsonExcept_NoBackoff(e) ==
    IF e = "TimeoutError" THEN IterRetry(0)
    ELSE IF ExceptException(e) THEN IterRetry(error_sleep)
    ELSE IterRaise(e)

\* the two except clauses of _fetch_json
FetchJsonExcept(e) ==
    IF e = "TimeoutError" THEN IterRetry(timeout_sleep)
    ELSE IF ExceptException(e) THEN IterRetry(error_sleep)
    ELSE IterRaise(e)

FetchJsonOn403_Retry == IterRetry(error_sleep)

FetchJsonOn403 == IterReturn(NoBody)

FetchJsonOn429(resp) ==
    LET p == ParseRetryAfter(resp.retry_after)
    IN  IF p.exc # None THEN FetchJsonExcept(p.exc) ELSE IterRetry(p.value)

FetchJsonIter(resp) ==
    IF TryBodyRaises(resp) # None THEN FetchJsonExcept(TryBodyRaises(resp))
    ELSE CASE resp.kind = "200" -> IterReturn(resp.body)
           [] resp.kind = "429" -> FetchJsonOn429(resp)
           [] resp.kind = "403" -> FetchJsonOn403
           [] OTHER -> IterRetry(error_sleep)

\* ------------------------------------------------------------------------
\* market_scraper.py fetch_html: one activation fetch_html(session, url, retries)
\* ------------------------------------------------------------------------
\* random.uniform(*CONFIG["base_delay"]): the two ends of the range
Delays == {base_delay_min, base_delay_max}

MayRetry_Inclusive(retries) == retries <= CONFIG_max_retries

MayRetry(retries) == retries < CONFIG_max_retries

WaitTime_Flat(retries) == 10

\* wait_time = (retries + 1) * 10
WaitTime(retries) == (retries + 1) * 10

\* "retry" is the recursive call return await fetch_html(session, url, retries + 1)
FetchHtmlOnTimeout(retries) ==
    IF MayRetry(retries) THEN IterRetry(0) ELSE IterReturn(NoBody)

FetchHtmlExcept(e, retries) ==
    IF e = "TimeoutError" THEN FetchHtmlOnTimeout(retries)
    ELSE IF ExceptException(e) THEN IterReturn(NoBody)
    ELSE IterRaise(e)

FetchHtmlOn403(retries) == IterReturn(NoBody)

FetchHtmlCall(resp, retries) ==
    IF TryBodyRaises(resp) # None THEN FetchHtmlExcept(TryBodyRaises(resp), retries)
    ELSE CASE resp.kind = "200" -> IterReturn(resp.body)
           [] resp.kind = "429" ->
                IF MayRetry(retries) THEN IterRetry(WaitTime(retries))
                ELSE IterReturn(NoBody)
           [] resp.kind = "403" -> FetchHtmlOn403(retries)
           [] OTHER -> IterReturn(NoBody)

\* ------------------------------------------------------------------------
\* State
\* ------------------------------------------------------------------------
VARIABLES
    \* one fetch call, attempt by attempt
    fetcher,    \* "reddit" (_fetch_json) or "market" (fetch_html)
    fpc,        \* "idle", "running", "returned", "raised"; "awaiting": inside
                \* session.get, the request sent and no response yet
    attempt,    \* _fetch_json: loop variable attempt; fetch_html: retries
    history,    \* the responses the call has received, in order
    gaps,       \* gaps[i]: seconds slept between response i-1 (or the call) and attempt i
    slept,      \* seconds slept since the last response
    delays,     \* delays[i]: the randomized delay slept right before attempt i, 0 if none
    result,     \* the value returned (NoBody: None, the failure outcome)
    raised,     \* the exception that left the call, or None
    in_flight,  \* requests sent whose response has not arrived
    \* a RedditScraper and the method running on it
    pc,              \* "idle", "ready", "pagination", "final_checkpoint", "chunk", "done",
                     \* "raised", "save_output", "exit", "output_failed", "cancelled",
                     \* "main" (main() before the scraper is constructed)
    start_date,      \* self.start_date, in hours (local time)
    end_date,        \* self.end_date
    utc_offset,      \* the machine's local time minus UTC, in hours
    posts,           \* self.posts
    seen_ids,        \* self.seen_ids
    checkpoint_file, \* what the file at self.checkpoint_file holds
    checkpoint_data, \* self.checkpoint_data['seen_ids']
    sort_no,         \* scrape(): which of its five pagination calls is running
    tf_no,           \* position of time_filter in time_filters
    after,           \* the cursor of the running pagination loop
    count,           \* count of the running loop
    total_count,     \* total_count of the running method
    counts,          \* the counts the calls made so far returned: count_new,
                     \* count_hot, ... of scrape(), "count" of the chunk driver
    pages,           \* requests the running loop has made
    current_start,   \* scrape_search_api_chunked: current_start
    current_end,     \* scrape_search_api_chunked: current_end
    windows,         \* the (start, end) pairs _scrape_chunk was called with, in order
    feed,            \* the posts the server holds: feed[id] is the post's created_utc, if any
    chain_pages,     \* the cursor chains of the server's listings end within so many pages
    skipped_seen,    \* ids of in-range posts skipped because already in seen_ids
    trace,           \* the iterations of the running "while True" loop, or of the one
                     \* that ended last: request, page received, what became of it
                     \* (Unobserved in the runs that keep no log)
    saves,           \* len(self.posts) at each call of _save_checkpoint, in order
    output_file      \* what the file at self.output_file holds

VARIABLES
    \* one run of the market scraper (scrape_all_markets, then save_results)
    mpc,              \* where main() is: "idle" (no market run), "aggregator",
                      \* "sok", "bim", "a101", "save_results", "exit", "failed"
    market_no,        \* scrape_aktuel_urunler: position of market in CONFIG["markets"]
    aggregator_deals, \* the deals of scrape_aktuel_urunler, each by its "market"
    all_deals,        \* all_deals
    requests,         \* the calls of fetch_html by the scrapers, in order: through
                      \* which site, for which market, and what came of it
    results_file      \* what the file at CONFIG["output_file"] holds

mvars == <<mpc, market_no, aggregator_deals, all_deals, requests, results_file>>

fvars == <<fetcher, fpc, attempt, history, gaps, slept, delays, result, raised,
           in_flight>>

rvars == <<pc, start_date, end_date, utc_offset, posts, seen_ids, checkpoint_file,
           checkpoint_data, sort_no, tf_no, after, count, total_count, counts, pages,
           current_start, current_end, windows, feed, chain_pages, skipped_seen,
           trace, saves, output_file>>

vars == <<fvars, rvars, mvars>>

Ids == 1..NumIds
NoCursor == <<"None", 0>>
EmptyCursor == <<"", 0>>
Cursors == {<<"t3", i>> : i \in 1..NumCursors}
\* the "after" token of the k-th page of a listing (the name of its last post)
ServedCursor(k) == <<"t3", IF k <= NumCursors THEN k ELSE NumCursors>>

MissingFile == [state |-> "missing", seen_ids |-> {}, posts_count |-> 0]
CorruptFile == [state |-> "corrupt", seen_ids |-> {}, posts_count |-> 0]
ValidFile(ids, n) == [state |-> "valid", seen_ids |-> ids, posts_count |-> n]
\* files that exist and are not a checkpoint: one that cannot be opened, JSON
\* that is not an object, an object without 'seen_ids', one whose 'seen_ids'
\* has no len() (a number, null), one whose 'seen_ids' is a list holding a
\* list, and one whose 'seen_ids' is a string or an object, which iterates to
\* its characters or its keys (ids)
UnreadableFile == [state |-> "unreadable", seen_ids |-> {}, posts_count |-> 0]
NotObjectFile == [state |-> "not_object", seen_ids |-> {}, posts_count |-> 0]
NoKeyFile == [state |-> "no_key", seen_ids |-> {}, posts_count |-> 0]
NoLenFile == [state |-> "no_len", seen_ids |-> {}, posts_count |-> 0]
UnhashableFile == [state |-> "unhashable", seen_ids |-> {}, posts_count |-> 0]
IterableFile(ids) == [state |-> "iterable", seen_ids |-> ids, posts_count |-> 0]

\* the value of trace in the runs whose requests are not logged
Unobserved ==
    <<[cursor |-> <<"None", 0>>, page |-> "unobserved", next |-> <<"None", 0>>,
       outcome |-> "unobserved", offered |-> {}, count |-> 0, saved |-> FALSE]>>

\* the value of counts in the runs that do not keep the counts returned
Uncounted == <<-1>>

\* the output file: not there, holding the serialized posts, or cut short
AbsentOutput == [state |-> "absent", posts |-> <<>>]
WrittenOutput(ps) == [state |-> "written", posts |-> ps]
PartialOutput == [state |-> "partial", posts |-> <<>>]

\* no market run
NoMarketRun ==
    /\ mpc = "idle"
    /\ market_no = 0
    /\ aggregator_deals = <<>>
    /\ all_deals = <<>>
    /\ requests = <<>>
    /\ results_file = AbsentOutput

\* no scraper: the state of the fetch-only specification
NoScraper ==
    /\ pc = "idle"
    /\ start_date = 0
    /\ end_date = 0
    /\ utc_offset = 0
    /\ posts = <<>>
    /\ seen_ids = {}
    /\ checkpoint_file = MissingFile
    /\ checkpoint_data = {}
    /\ sort_no = 0
    /\ tf_no = 0
    /\ after = NoCursor
    /\ count = 0
    /\ total_count = 0
    /\ counts = <<>>
    /\ pages = 0
    /\ current_start = 0
    /\ current_end = 0
    /\ windows = <<>>
    /\ feed = <<>>
    /\ chain_pages = 0
    /\ skipped_seen = {}
    /\ trace = <<>>
    /\ saves = <<>>
    /\ output_file = AbsentOutput

\* no stepwise fetch call: the state of the scraper specifications
NoFetchCall ==
    /\ fetcher = "reddit"
    /\ fpc = "idle"
    /\ attempt = 0
    /\ history = <<>>
    /\ gaps = <<>>
    /\ slept = 0
    /\ delays = <<>>
    /\ result = NoBody
    /\ raised = None
    /\ in_flight = 0

\* ------------------------------------------------------------------------
\* One fetch call, attempt by attempt
\* ------------------------------------------------------------------------
\* a call of fetch_html, or a call of _fetch_json by a pagination loop: the
\* loop's _delay() ran just before it, except before the first request of a
\* loop, which follows "after = None" at once
InitFetch ==
    /\ fetcher \in {"reddit", "market"}
    /\ fpc = "running"
    /\ attempt = 0
    /\ history = <<>>
    /\ gaps = <<>>
    /\ delays = <<>>
    /\ slept \in (IF fetcher = "reddit" THEN {0} \cup Delays ELSE {0})
    /\ result = NoBody
    /\ raised = None
    /\ in_flight = 0
    /\ NoScraper
    /\ NoMarketRun

\* the state a step of the call leads to
FetchStep(resp, it, gap, delay, exhausted) ==
    /\ history' = Append(history, resp)
    /\ gaps' = Append(gaps, gap)
    /\ delays' = Append(delays, delay)
    /\ fetcher' = fetcher
    /\ CASE it.act = "return" ->
              /\ fpc' = "returned"
              /\ result' = it.value
              /\ UNCHANGED <<attempt, slept, raised>>
         [] it.act = "raise" ->
              /\ fpc' = "raised"
              /\ raised' = it.exc
              /\ UNCHANGED <<attempt, slept, result>>
         [] OTHER ->
              /\ attempt' = attempt + 1
              /\ slept' = it.sleep
              /\ UNCHANGED <<result, raised>>
              /\ fpc' = IF exhausted THEN "returned" ELSE "running"

\* _fetch_json: session.get, the handling of its response, and "return None"
\* when the loop is exhausted; no _delay() inside the method: the first attempt
\* has the caller's, a retry only the fixed sleep of the branch before it
FetchJsonAttempt ==
    /\ fetcher = "reddit"
    /\ fpc = "running"
    /\ attempt < max_retries
    /\ \E resp \in Responses :
          FetchStep(resp, FetchJsonIter(resp), slept,
                    IF attempt = 0 THEN slept ELSE 0, attempt + 1 >= max_retries)
    /\ UNCHANGED <<rvars, mvars, in_flight>>

\* fetch_html: random_delay, session.get, the handling of its response
FetchHtmlAttempt ==
    /\ fetcher = "market"
    /\ fpc = "running"
    /\ \E resp \in Responses, d \in Delays :
          FetchStep(resp, FetchHtmlCall(resp, attempt), slept + d, d, FALSE)
    /\ UNCHANGED <<rvars, mvars, in_flight>>

NextFetch == FetchJsonAttempt \/ FetchHtmlAttempt

SpecFetch == InitFetch /\ [][NextFetch]_vars

\* ------------------------------------------------------------------------
\* _fetch_json as the pagination loops see it: the whole call, for the
\* responses its attempts receive
\* ------------------------------------------------------------------------
RECURSIVE FetchJsonFrom(_, _)
FetchJsonFrom(att, script) ==
    IF att >= max_retries
    THEN [act |-> "return", value |-> NoBody, exc |-> None, used |-> script = <<>>]
    ELSE IF script = <<>>
    THEN [act |-> "retry", value |-> NoBody, exc |-> None, used |-> FALSE]
    ELSE LET it == FetchJsonIter(Head(script))
         IN  IF it.act = "retry" THEN FetchJsonFrom(att + 1, Tail(script))
             ELSE [act |-> it.act, value |-> it.value, exc |-> it.exc,
                   used |-> Tail(script) = <<>>]

FetchJson(script) == FetchJsonFrom(0, script)

\* the responses the server gives the attempts of a run
RunResponses ==
    {Resp("200", <<"body", 1>>, NoHeader), Resp("429", NoBody, NoHeader),
     Resp("403", NoBody, NoHeader), Resp("timeout", NoBody, NoHeader)}

\* the response sequences one call consumes to its end
RunScripts ==
    {s \in UNION {[1..n -> RunResponses] : n \in 1..max_retries} : FetchJson(s).used}

\* what a call of a run comes back with
FetchOutcomes == {FetchJson(s) : s \in RunScripts}

\* fetch_html as the scrapers see it: the whole call, its recursive calls
\* included, for the responses its requests receive
RECURSIVE FetchHtmlFrom(_, _)
FetchHtmlFrom(retries, script) ==
    IF script = <<>>
    THEN [act |-> "retry", value |-> NoBody, exc |-> None, used |-> FALSE]
    ELSE LET it == FetchHtmlCall(Head(script), retries)
         IN  IF it.act = "retry" THEN FetchHtmlFrom(retries + 1, Tail(script))
             ELSE [act |-> it.act, value |-> it.value, exc |-> it.exc,
                   used |-> Tail(script) = <<>>]

FetchHtml(script) == FetchHtmlFrom(0, script)

HtmlScripts ==
    {s \in UNION {[1..n -> RunResponses] : n \in 1..(CONFIG_max_retries + 1)} :
        FetchHtml(s).used}

HtmlOutcomes == {FetchHtml(s) : s \in HtmlScripts}

\* ------------------------------------------------------------------------
\* Checkpoint
\* ------------------------------------------------------------------------
\* _load_checkpoint reaches its "return data": json.load gave a dict, and
\* data.get('seen_ids', []) went through len() and set(). Nothing there
\* looks at what the value is: a list of ids, a string or an object
Loads(file) == file.state \in {"valid", "no_key", "iterable"}

\* _load_checkpoint: data.get('seen_ids', []) of the dict it returns, the
\* file's when the file loads and the default's when not
LoadCheckpoint(file) == IF Loads(file) THEN file.seen_ids ELSE {}

SeedSeenIds_Forgotten(file) == {}

\* self.seen_ids after _load_checkpoint: set(data.get('seen_ids', [])) when
\* the file loads, else the empty set of __init__
SeedSeenIds(file) == IF Loads(file) THEN file.seen_ids ELSE {}

\* _save_checkpoint: aiofiles.open(..., 'w') truncates the file, then the
\* write; either may fail, and the failure is logged, not raised
SaveOutcomes == {"written", "open_failed", "write_failed"}

SaveCheckpoint_StaleIds(outcome, file, ids, n) ==
    CASE outcome = "written" -> ValidFile(file.seen_ids, n)
      [] outcome = "open_failed" -> file
      [] OTHER -> CorruptFile

SaveCheckpoint(outcome, file, ids, n) ==
    CASE outcome = "written" -> ValidFile(ids, n)
      [] outcome = "open_failed" -> file
      [] OTHER -> CorruptFile

\* ------------------------------------------------------------------------
\* Listing pages and their processing
\* ------------------------------------------------------------------------
\* datetime.fromtimestamp: epoch time to naive local time
FromTimestamp(ts) == ts + utc_offset

\* timedelta(days=n), in hours
timedelta(days) == days * 24

\* _extract_post_data: None for a child it raises on; created_utc None when
\* the key is missing
ExtractPostData(child) ==
    [ok |-> child.kind # "unparseable", id |-> child.id,
     created_utc |-> child.created_utc, dated |-> child.kind = "post"]

Unseen_Always(post, seen) == TRUE

\* post['id'] not in self.seen_ids
Unseen(post, seen) == post.id \notin seen

InDateRange_NoUpper(d) == start_date <= d

\* self.start_date <= post_date <= self.end_date
InDateRange(d) == start_date <= d /\ d <= end_date

InChunk_Inclusive(d, start, end) == start <= d /\ d <= end

\* start <= post_date < end
InChunk(d, start, end) == start <= d /\ d < end

Accepts(d, chunked) ==
    IF chunked THEN InChunk(d, current_start, current_end) ELSE InDateRange(d)

ProcessChild_ForgetsId(child, acc, chunked) ==
    LET post == ExtractPostData(child)
    IN  IF acc.exc \/ ~post.ok \/ ~Unseen(post, acc.seen_ids) THEN acc
        ELSE IF ~post.dated THEN [acc EXCEPT !.exc = TRUE]
        ELSE IF Accepts(FromTimestamp(post.created_utc), chunked)
        THEN [acc EXCEPT !.posts = Append(@, [id |-> post.id,
                                             created_utc |-> post.created_utc]),
                         !.count = @ + 1]
        ELSE acc

ProcessChild_EndsOnRejected(child, acc, chunked) ==
    LET post == ExtractPostData(child)
    IN  IF acc.exc \/ ~post.ok THEN acc
        ELSE IF \/ ~Unseen(post, acc.seen_ids)
                \/ ~post.dated
                \/ ~Accepts(FromTimestamp(post.created_utc), chunked)
        THEN [acc EXCEPT !.exc = TRUE]
        ELSE [acc EXCEPT !.posts = Append(@, [id |-> post.id,
                                             created_utc |-> post.created_utc]),
                         !.seen_ids = @ \cup {post.id},
                         !.count = @ + 1]

ProcessChild_CountsRejected(child, acc, chunked) ==
    LET post == ExtractPostData(child)
    IN  IF acc.exc \/ ~post.ok \/ ~Unseen(post, acc.seen_ids) THEN acc
        ELSE IF ~post.dated THEN [acc EXCEPT !.exc = TRUE]
        ELSE IF Accepts(FromTimestamp(post.created_utc), chunked)
        THEN [acc EXCEPT !.posts = Append(@, [id |-> post.id,
                                             created_utc |-> post.created_utc]),
                         !.seen_ids = @ \cup {post.id},
                         !.count = @ + 1]
        ELSE [acc EXCEPT !.count = @ + 1]

\* the body of "for child in children" for one child; exc:
\* datetime.fromtimestamp(None) raised, the rest of the loop is not run
ProcessChild(child, acc, chunked) ==
    LET post == ExtractPostData(child)
    IN  IF acc.exc \/ ~post.ok THEN acc
        ELSE IF ~Unseen(post, acc.seen_ids)
        THEN [acc EXCEPT !.skipped =
                 IF post.dated /\ Accepts(FromTimestamp(post.created_utc), chunked)
                 THEN @ \cup {post.id} ELSE @]
        ELSE IF ~post.dated THEN [acc EXCEPT !.exc = TRUE]
        ELSE IF Accepts(FromTimestamp(post.created_utc), chunked)
        THEN [acc EXCEPT !.posts = Append(@, [id |-> post.id,
                                             created_utc |-> post.created_utc]),
                         !.seen_ids = @ \cup {post.id},
                         !.count = @ + 1]
        ELSE acc

\* the children lo..hi in order, the first half and then the second
RECURSIVE ProcessRange(_, _, _, _, _)
ProcessRange(children, lo, hi, acc, chunked) ==
    IF lo > hi THEN acc
    ELSE IF lo = hi THEN ProcessChild(children[lo], acc, chunked)
    ELSE LET mid == (lo + hi) \div 2
             first == ProcessRange(children, lo, mid, acc, chunked)
         IN  IF first.exc THEN first
             ELSE ProcessRange(children, mid + 1, hi, first, chunked)

\* the "for child in children" loop
ProcessChildren(children, acc, chunked) ==
    ProcessRange(children, 1, Len(children), acc, chunked)

Falsy(cursor) == cursor \in {NoCursor, EmptyCursor}

\* the children the server can put on a page: its posts, with created_utc or
\* without the key, and a child that _extract_post_data raises on
Dated(ts) == [kind |-> "post", created_utc |-> ts]
Undated == [kind |-> "undated", created_utc |-> 0]

\* the sort of each pagination call of scrape(), in order
Sorts == <<"new", "hot", "top", "rising", "controversial">>

Child(i) == [kind |-> feed[i].kind, id |-> i, created_utc |-> feed[i].created_utc]

Children ==
    {Child(i) : i \in Ids} \cup {[kind |-> "unparseable", id |-> 0, created_utc |-> 0]}

\* the posts of a server that holds one more than a page of limit=100
BulkPosts == page_limit + 1

\* the posts lo..hi of the server as the children of a page
Run(lo, hi) == [i \in 1..(hi - lo + 1) |-> Child(lo + i - 1)]

\* the pages of such a server. It lists its posts under /new alone: a page
\* of page_limit posts or of one fewer from the first post on, or the posts
\* from the page_limit-th on; its other listings and its search are empty
FullPages ==
    IF pc = "pagination" /\ Sorts[sort_no] = "new"
    THEN {<<>>, Run(1, page_limit - 1), Run(1, page_limit), Run(page_limit, BulkPosts)}
    ELSE {<<>>}

SeqsUpTo(S, n) == UNION {[1..k -> S] : k \in 0..n}

\* the children a listing may hold
Pages == IF Len(feed) <= NumIds THEN SeqsUpTo(Children, MaxItems) ELSE FullPages

\* a falsy JSON value ({} or null), and JSON of another shape than a listing
FalsyPayload == [kind |-> "falsy", children |-> <<>>, after |-> NoCursor]
MalformedPayload == [kind |-> "malformed", children |-> <<>>, after |-> NoCursor]

\* what a 200 may carry; the cursor chain of one loop ends within chain_pages
Payloads ==
    {FalsyPayload, MalformedPayload}
      \cup {[kind |-> "listing", children |-> c, after |-> a] :
              c \in Pages,
              a \in {NoCursor, EmptyCursor}
                      \cup (IF pages + 1 < chain_pages THEN {ServedCursor(pages + 1)} ELSE {})}

RequestCursor_First(cursor) == NoCursor

\* "if after: params['after'] = after": the cursor the request carries
RequestCursor(cursor) == IF Falsy(cursor) THEN NoCursor ELSE cursor

\* "if not data": _fetch_json returned None, or a falsy JSON value
NoData(f, payload) == f.value = NoBody \/ payload.kind = "falsy"

NoChildren_Never(children) == FALSE

\* "if not children"
NoChildren(children) == children = <<>>

\* what the request of an iteration brought: nothing ("failed"), a falsy or
\* malformed payload, a listing without children ("empty"), a listing with a
\* post that lacks created_utc ("undated"), or a listing of dated posts
PageKind(f, payload) ==
    IF f.act = "raise" THEN "raised"
    ELSE IF f.value = NoBody THEN "failed"
    ELSE IF payload.kind # "listing" THEN payload.kind
    ELSE IF payload.children = <<>> THEN "empty"
    ELSE IF \E i \in 1..Len(payload.children) : payload.children[i].kind = "undated"
    THEN "undated"
    ELSE "items"

\* the ids of the posts of a page whose date passes the date check
Offered(children, chunked) ==
    {children[i].id : i \in {j \in 1..Len(children) :
        /\ children[j].kind = "post"
        /\ Accepts(FromTimestamp(children[j].created_utc), chunked)}}

\* one iteration of "while True" up to its break, continue or exception
PageResult(f, payload, chunked) ==
    LET start == [posts |-> posts, seen_ids |-> seen_ids, count |-> 0,
                  skipped |-> skipped_seen, exc |-> FALSE]
        acc == ProcessChildren(payload.children, start, chunked)
        end(kind, a, cursor, next) ==
            [kind |-> kind, posts |-> a.posts, seen_ids |-> a.seen_ids,
             count |-> a.count, skipped |-> a.skipped, after |-> cursor,
             cursor |-> RequestCursor(after), next |-> next,
             page |-> PageKind(f, payload),
             offered |-> IF PageKind(f, payload) \in {"items", "undated"}
                         THEN Offered(payload.children, chunked) ELSE {}]
    IN  IF f.act = "raise" THEN end("raise", start, after, NoCursor)
        ELSE IF NoData(f, payload) THEN end("break", start, after, NoCursor)
        ELSE IF payload.kind = "malformed" THEN end("raise", start, after, NoCursor)
        ELSE IF NoChildren(payload.children) THEN end("break", start, after, NoCursor)
        ELSE IF acc.exc THEN end("raise", acc, after, NoCursor)
        ELSE IF Falsy(payload.after) THEN end("break", acc, payload.after, payload.after)
        ELSE end("continue", acc, payload.after, payload.after)

\* the log of the loop's iterations, with that of r; a loop that starts
\* replaces the log of the loop before it
Logged(r, n, saved) ==
    LET e == [cursor |-> r.cursor, page |-> r.page, next |-> r.next,
              outcome |-> r.kind, offered |-> r.offered, count |-> n, saved |-> saved]
    IN  IF trace = Unobserved THEN Unobserved
        ELSE IF trace = <<>> \/ trace[Len(trace)].outcome # "continue" THEN <<e>>
        ELSE Append(trace, e)

\* "if count > 0 and count % 100 == 0"
CheckpointDue(n) == n > 0 /\ n % checkpoint_every = 0

\* the payloads to draw for a fetch outcome (none is read after a failure)
PayloadsFor(f) ==
    IF f.act = "return" /\ f.value \in Bodies THEN Payloads ELSE {FalsyPayload}

\* ------------------------------------------------------------------------
\* RedditScraper: construction, scrape(), scrape_search_api_chunked()
\* ------------------------------------------------------------------------
TimeFilters_Single(sort) == <<"None">>

\* time_filters of scrape_old_reddit_pagination
TimeFilters(sort) ==
    IF sort \in {"top", "controversial"} THEN <<"month", "year", "all">> ELSE <<"None">>

\* the file a run finds: none, one that does not load, or one saved by a run
\* that had collected the first n posts
CheckpointFiles ==
    {MissingFile, CorruptFile} \cup {ValidFile(1..n, n) : n \in 0..NumIds}

\* __init__: the fields, then _load_checkpoint
Construct ==
    /\ posts = <<>>
    /\ seen_ids = SeedSeenIds(checkpoint_file)
    /\ checkpoint_data = LoadCheckpoint(checkpoint_file)
    /\ pc = "ready"
    /\ sort_no = 0
    /\ tf_no = 0
    /\ after = NoCursor
    /\ count = 0
    /\ total_count = 0
    /\ pages = 0
    /\ current_start = 0
    /\ current_end = 0
    /\ windows = <<>>
    /\ skipped_seen = {}
    /\ saves = <<>>
    /\ output_file = AbsentOutput
    /\ NoFetchCall
    /\ NoMarketRun

\* main(): scraper = RedditScraper(...), the scraper not yet constructed
NewScraper ==
    /\ pc = "main"
    /\ pc' = "ready"
    /\ posts' = <<>>
    /\ seen_ids' = SeedSeenIds(checkpoint_file)
    /\ checkpoint_data' = LoadCheckpoint(checkpoint_file)
    /\ UNCHANGED <<fvars, mvars, counts, start_date, end_date, utc_offset, checkpoint_file, sort_no,
                   tf_no, after, count, total_count, pages, current_start,
                   current_end, windows, feed, chain_pages, skipped_seen, trace,
                   saves, output_file>>

\* the files the constructor may find at checkpoint.json
LoadFiles ==
    {MissingFile, UnreadableFile, CorruptFile, NotObjectFile, NoKeyFile, NoLenFile,
     UnhashableFile}
        \cup {IterableFile(1..n) : n \in 0..NumIds}
        \cup {ValidFile(1..n, n) : n \in 0..NumIds}

\* the server's posts: each with a created_utc whose local time is one of
\* "stamps", or without the key
Feeds(stamps) ==
    [Ids -> {Dated(b - utc_offset) : b \in stamps} \cup {Undated}]

\* a scraper constructed with --start-date day 1 and an end date of day
\* 0..MaxDay, or left to datetime.now() (not a midnight), on a machine on UTC
\* or east of it, beside any checkpoint file; the posts served lie at and
\* around the bounds of the date range
Init ==
    /\ start_date = timedelta(1)
    /\ end_date \in {timedelta(d) : d \in 0..MaxDay} \cup {timedelta(MaxDay) + 13}
    /\ utc_offset \in {0, 3}
    /\ checkpoint_file \in CheckpointFiles
    /\ feed \in Feeds({start_date - 1, start_date, end_date, end_date + 1})
    /\ trace = Unobserved
    /\ chain_pages = MaxPages
    /\ counts = Uncounted
    /\ Construct

\* scrape() up to its first request: the call for sort 'new' starts its loop
Scrape ==
    /\ pc = "ready"
    /\ pc' = "pagination"
    /\ sort_no' = 1
    /\ tf_no' = 1
    /\ after' = NoCursor
    /\ count' = 0
    /\ total_count' = 0
    /\ pages' = 0
    /\ UNCHANGED <<fvars, mvars, counts, start_date, end_date, utc_offset, posts, seen_ids,
                   checkpoint_file, checkpoint_data, current_start, current_end,
                   windows, feed, chain_pages, skipped_seen, trace, saves, output_file>>

\* the counts with the one a call returns
Returned(n) == IF counts = Uncounted THEN counts ELSE Append(counts, n)

PaginationBreak_Abort(tc) ==
    /\ tf_no' = 1
    /\ total_count' = 0
    /\ counts' = Returned(tc)
    /\ sort_no' = sort_no
    /\ pc' = "final_checkpoint"

\* after a break: the next time_filter, or "return total_count" (scrape()
\* keeps it as count_new, count_hot, ...) and the next call of scrape(), or
\* the end of its calls
PaginationBreak(tc) ==
    IF tf_no < Len(TimeFilters(Sorts[sort_no]))
    THEN /\ tf_no' = tf_no + 1
         /\ total_count' = tc
         /\ UNCHANGED <<sort_no, pc, counts>>
    ELSE /\ tf_no' = 1
         /\ total_count' = 0
         /\ counts' = Returned(tc)
         /\ sort_no' = IF sort_no < Len(Sorts) THEN sort_no + 1 ELSE sort_no
         /\ pc' = IF sort_no < Len(Sorts) THEN "pagination" ELSE "final_checkpoint"

\* scrape_old_reddit_pagination: one iteration of "while True" once
\* _fetch_json has come back with f, up to the next request (or to the
\* exception that leaves the method)
PaginationIteration(f) ==
    \E payload \in PayloadsFor(f) :
      \E r \in {PageResult(f, payload, FALSE)} :
        /\ posts' = r.posts
        /\ seen_ids' = r.seen_ids
        /\ skipped_seen' = r.skipped
        /\ CASE r.kind = "raise" ->
                  /\ pc' = "raised"
                  /\ count' = count + r.count
                  /\ total_count' = total_count + r.count
                  /\ trace' = Logged(r, count', FALSE)
                  /\ UNCHANGED <<sort_no, tf_no, after, pages, checkpoint_file, saves, counts>>
             [] r.kind = "continue" ->
                  /\ after' = r.after
                  /\ count' = count + r.count
                  /\ total_count' = total_count + r.count
                  /\ pages' = pages + 1
                  /\ trace' = Logged(r, count', CheckpointDue(count'))
                  /\ IF CheckpointDue(count')
                     THEN /\ \E o \in SaveOutcomes :
                               checkpoint_file' =
                                 SaveCheckpoint(o, checkpoint_file, r.seen_ids, Len(r.posts))
                          /\ saves' = Append(saves, Len(r.posts))
                     ELSE UNCHANGED <<checkpoint_file, saves>>
                  /\ UNCHANGED <<sort_no, tf_no, pc, counts>>
             [] OTHER ->
                  /\ after' = NoCursor
                  /\ count' = 0
                  /\ pages' = 0
                  /\ trace' = Logged(r, count + r.count, FALSE)
                  /\ PaginationBreak(total_count + r.count)
                  /\ UNCHANGED <<checkpoint_file, saves>>

\* scrape_old_reddit_pagination: _fetch_json and the iteration it opens, for
\* every outcome _fetch_json has
PaginationPage ==
    /\ pc = "pagination"
    /\ \E f \in FetchOutcomes : PaginationIteration(f)
    /\ UNCHANGED <<fvars, mvars, start_date, end_date, utc_offset, checkpoint_data,
                   current_start, current_end, windows, feed, chain_pages, output_file>>

\* scrape(): the final checkpoint and "return len(self.posts)" to main()
FinalCheckpoint_Skipped ==
    /\ pc = "final_checkpoint"
    /\ pc' = "save_output"
    /\ UNCHANGED <<fvars, mvars, counts, start_date, end_date, utc_offset, posts, seen_ids,
                   checkpoint_file, checkpoint_data, sort_no, tf_no, after, count,
                   total_count, pages, current_start, current_end, windows, feed,
                   chain_pages, skipped_seen, trace, saves, output_file>>

FinalCheckpoint ==
    /\ pc = "final_checkpoint"
    /\ \E o \in SaveOutcomes :
          checkpoint_file' = SaveCheckpoint(o, checkpoint_file, seen_ids, Len(posts))
    /\ saves' = Append(saves, Len(posts))
    /\ pc' = "save_output"
    /\ UNCHANGED <<fvars, mvars, start_date, end_date, utc_offset, posts, seen_ids,
                   checkpoint_data, sort_no, tf_no, after, count, total_count, counts, pages,
                   current_start, current_end, windows, feed, chain_pages, skipped_seen, trace,
                   output_file>>

\* self.posts.sort(key=lambda x: x['created_utc'], reverse=True): a stable
\* sort, posts of one created_utc keep their order. The place of s[i] in the
\* sorted list: after the posts created later and the earlier ones of its own
\* created_utc
PlaceByCreatedDesc(s, i) ==
    1 + Cardinality({j \in 1..Len(s) :
            \/ s[j].created_utc > s[i].created_utc
            \/ s[j].created_utc = s[i].created_utc /\ j < i})

SortByCreatedDesc(s) ==
    [k \in 1..Len(s) |-> s[CHOOSE i \in 1..Len(s) : PlaceByCreatedDesc(s, i) = k]]

\* the open(..., 'w') and the write of save_output: a failure of either is
\* not caught and leaves main()
WriteOutput(outcome, file, ps) ==
    CASE outcome = "written" -> WrittenOutput(ps)
      [] outcome = "open_failed" -> file
      [] OTHER -> PartialOutput

\* "if not self.posts: ... return"
SkipsOutput(ps) == ps = <<>>

\* main() after scrape(): save_output(), for either output format
SaveOutput ==
    /\ pc = "save_output"
    /\ IF SkipsOutput(posts)
       THEN /\ pc' = "exit"
            /\ UNCHANGED <<posts, output_file>>
       ELSE /\ posts' = SortByCreatedDesc(posts)
            /\ \E o \in SaveOutcomes :
                  /\ output_file' = WriteOutput(o, output_file, posts')
                  /\ pc' = IF o = "written" THEN "exit" ELSE "output_failed"
    /\ UNCHANGED <<fvars, mvars, start_date, end_date, utc_offset, seen_ids, checkpoint_file,
                   checkpoint_data, sort_no, tf_no, after, count, total_count, counts, pages,
                   current_start, current_end, windows, feed, chain_pages, skipped_seen, trace, saves>>

\* the task is cancelled while it awaits the _delay() between two requests
\* of a loop: asyncio.CancelledError is raised there, no handler or finally
\* clause of the loop, of scrape() or of main() catches it
Cancel ==
    /\ pc \in {"pagination", "chunk"}
    /\ pages > 0
    /\ pc' = "cancelled"
    /\ UNCHANGED <<fvars, mvars, counts, start_date, end_date, utc_offset, posts, seen_ids,
                   checkpoint_file, checkpoint_data, sort_no, tf_no, after, count,
                   total_count, pages, current_start, current_end, windows, feed, chain_pages,
                   skipped_seen, trace, saves, output_file>>

Min(a, b) == IF a < b THEN a ELSE b

ChunkEnd_Unclipped(start) == start + timedelta(chunk_days)

\* min(current_start + timedelta(days=chunk_days), self.end_date)
ChunkEnd(start) == Min(start + timedelta(chunk_days), end_date)

\* "while current_start < self.end_date": the next _scrape_chunk call up to
\* its first request, or "return total_count"
ChunkLoop(start, tc) ==
    /\ current_start' = start
    /\ total_count' = tc
    /\ after' = NoCursor
    /\ count' = 0
    /\ pages' = 0
    /\ IF start < end_date
       THEN /\ current_end' = ChunkEnd(start)
            /\ windows' = Append(windows, <<start, ChunkEnd(start)>>)
            /\ pc' = "chunk"
       ELSE /\ pc' = "done"
            /\ UNCHANGED <<current_end, windows>>

\* scrape_search_api_chunked() up to its first request
ScrapeSearchApiChunked ==
    /\ pc = "ready"
    /\ ChunkLoop(start_date, 0)
    /\ UNCHANGED <<fvars, mvars, counts, start_date, end_date, utc_offset, posts, seen_ids,
                   checkpoint_file, checkpoint_data, sort_no, tf_no, feed, chain_pages, skipped_seen,
                   trace, saves, output_file>>

\* _scrape_chunk: one iteration of "while True"; on a break the chunk's count
\* is returned, current_start moves to current_end and, after the delay, the
\* driver's loop goes on
ChunkPage ==
    /\ pc = "chunk"
    /\ \E f \in FetchOutcomes :
        \E payload \in PayloadsFor(f) :
          \E r \in {PageResult(f, payload, TRUE)} :
              /\ posts' = r.posts
              /\ seen_ids' = r.seen_ids
              /\ skipped_seen' = r.skipped
              /\ trace' = Logged(r, count + r.count, FALSE)
              /\ CASE r.kind = "raise" ->
                        /\ pc' = "raised"
                        /\ count' = count + r.count
                        /\ UNCHANGED <<after, pages, total_count, counts, current_start,
                                       current_end, windows>>
                   [] r.kind = "continue" ->
                        /\ after' = r.after
                        /\ count' = count + r.count
                        /\ pages' = pages + 1
                        /\ UNCHANGED <<pc, total_count, counts, current_start, current_end, windows>>
                   [] OTHER ->
                        /\ counts' = Returned(count + r.count)
                        /\ ChunkLoop(current_end, total_count + count + r.count)
    /\ UNCHANGED <<fvars, mvars, start_date, end_date, utc_offset, checkpoint_file,
                   checkpoint_data, sort_no, tf_no, feed, chain_pages, saves, output_file>>

Next ==
    \/ Scrape
    \/ PaginationPage
    \/ FinalCheckpoint
    \/ SaveOutput
    \/ Cancel
    \/ ScrapeSearchApiChunked
    \/ ChunkPage

Spec == Init /\ [][Next]_vars

\* runs whose requests are logged: a scraper constructed for day 1 to day 2
\* on a machine on UTC, without a checkpoint file
InitPages ==
    /\ start_date = timedelta(1)
    /\ end_date = timedelta(MaxDay)
    /\ utc_offset = 0
    /\ checkpoint_file = MissingFile
    /\ feed \in Feeds({start_date - 1, end_date})
    /\ trace = <<>>
    /\ chain_pages = MaxChainPages
    /\ counts = Uncounted
    /\ Construct

SpecPages == InitPages /\ [][Next]_vars

\* the same scraper before a server that holds BulkPosts posts of day 1
InitBulk ==
    /\ start_date = timedelta(1)
    /\ end_date = timedelta(MaxDay)
    /\ utc_offset = 0
    /\ checkpoint_file = MissingFile
    /\ feed = [i \in 1..BulkPosts |-> Dated(start_date)]
    /\ trace = <<>>
    /\ chain_pages = MaxChainPages
    /\ counts = Uncounted
    /\ Construct

SpecBulk == InitBulk /\ [][Next]_vars

\* main() from before the scraper is constructed, for day 1 to day 2 on a
\* machine on UTC, whatever the checkpoint file holds
InitLoad ==
    /\ start_date = timedelta(1)
    /\ end_date = timedelta(MaxDay)
    /\ utc_offset = 0
    /\ checkpoint_file \in LoadFiles
    /\ feed \in Feeds({start_date, end_date + 1})
    /\ trace = Unobserved
    /\ chain_pages = MaxPages
    /\ pc = "main"
    /\ posts = <<>>
    /\ seen_ids = {}
    /\ checkpoint_data = {}
    /\ sort_no = 0
    /\ tf_no = 0
    /\ after = NoCursor
    /\ count = 0
    /\ total_count = 0
    /\ counts = Uncounted
    /\ pages = 0
    /\ current_start = 0
    /\ current_end = 0
    /\ windows = <<>>
    /\ skipped_seen = {}
    /\ saves = <<>>
    /\ output_file = AbsentOutput
    /\ NoFetchCall
    /\ NoMarketRun

NextLoad == NewScraper \/ Scrape \/ PaginationPage \/ FinalCheckpoint \/ SaveOutput

SpecLoad == InitLoad /\ [][NextLoad]_vars

\* the chunk driver alone, over date ranges within day 0..MaxChunkDay; the
\* posts served lie at the bounds of the first window
InitChunk ==
    /\ start_date \in {timedelta(d) : d \in 0..MaxChunkDay}
    /\ end_date \in {timedelta(d) + h : d \in 0..MaxChunkDay, h \in {0, 13}}
    /\ utc_offset = 0
    /\ checkpoint_file = MissingFile
    /\ feed \in [Ids -> {Dated(b - utc_offset) :
                            b \in {start_date, start_date + timedelta(chunk_days)}}]
    /\ trace = Unobserved
    /\ chain_pages = MaxPages
    /\ counts = Uncounted
    /\ Construct

NextChunk == ScrapeSearchApiChunked \/ ChunkPage

\* the event loop runs the one task of the run whenever it can go on
SpecChunk == InitChunk /\ [][NextChunk]_vars /\ WF_vars(NextChunk)

\* ------------------------------------------------------------------------
\* Claims about the fetchers, under SpecFetch
\* ------------------------------------------------------------------------
\* the most HTTP attempts one call can make: range(max_retries) in
\* _fetch_json; the first activation of fetch_html and one per retry
AttemptCap == IF fetcher = "reddit" THEN max_retries ELSE CONFIG_max_retries + 1

LastResp == history[Len(history)]

\* C5: in both fetchers an attempt that receives 403 is the last attempt of
\* the call: the call has returned None, and the retry counter still has the
\* value it had when the 403 arrived (one step per earlier attempt).
C5_ForbiddenIsTerminal ==
    \A i \in 1..Len(history) :
        history[i].kind = "403" =>
            /\ i = Len(history)
            /\ fpc = "returned"
            /\ result = NoBody
            /\ attempt = i - 1

C5_Witness ==
    /\ fetcher = "reddit"
    /\ Len(history) = 3
    /\ LastResp.kind = "403"
    /\ fpc = "returned"

\* C6: after a 429 carrying Retry-After: n seconds, at least n seconds are
\* slept before the next attempt of the same call, in each fetcher.
C6_RetryAfterHonoured ==
    \A i \in 2..Len(history) :
        (history[i - 1].kind = "429" /\ history[i - 1].retry_after[1] = "secs")
            => gaps[i] >= history[i - 1].retry_after[2]

\* C7 as stated: no call makes more than 3 HTTP attempts, in both scripts.
C7_AtMostThreeAttempts == Len(history) <= 3

\* C7, amended: _fetch_json makes at most max_retries = 3 attempts and
\* fetch_html at most 1 + CONFIG["max_retries"] = 4; a call whose last
\* allowed attempt brought no decodable 200 has returned None.
C7_AttemptsBounded ==
    /\ Len(history) <= AttemptCap
    /\ (Len(history) = AttemptCap /\ ~(LastResp.kind = "200" /\ LastResp.body \in Bodies))
          => (fpc = "returned" /\ result = NoBody)

C7_Witness ==
    /\ fetcher = "market"
    /\ Len(history) = CONFIG_max_retries + 1
    /\ LastResp.kind = "429"
    /\ fpc = "returned"
    /\ result = NoBody

\* the sleep that separates a timed-out attempt from the next one:
\* asyncio.sleep(10) in _fetch_json; in fetch_html the random_delay that
\* opens the recursive call, at least CONFIG["base_delay"][0]
BackoffInterval == IF fetcher = "reddit" THEN timeout_sleep ELSE base_delay_min

TwoTimeoutsThenSuccess ==
    /\ Len(history) = 3
    /\ history[1].kind = "timeout"
    /\ history[2].kind = "timeout"
    /\ history[3].kind = "200"
    /\ history[3].body \in Bodies

C9_NetworkErrorRetried ==
    \A i \in 1..Len(history) :
        (history[i].kind = "error" /\ i < AttemptCap /\ i = Len(history))
            => fpc = "running"

\* C10: whatever the attempts bring, no exception leaves the call, and a call
\* that has returned holds a payload or None.
C10_NoExceptionEscapes ==
    /\ fpc # "raised"
    /\ raised = None
    /\ fpc = "returned" => result \in Bodies \cup {NoBody}

C10_Witness ==
    /\ fetcher = "reddit"
    /\ fpc = "returned"
    /\ \E i \in 1..Len(history) : history[i].retry_after = BadHeader
    /\ \E i \in 1..Len(history) : history[i].body = BadBody
    /\ \E i \in 1..Len(history) : history[i].kind = "timeout"

\* C11: every HTTP attempt of either fetcher (first attempts and retries) is
\* preceded, with no other attempt in between, by a randomized delay drawn
\* from the configured [min, max] range.
C11_DelayBeforeEveryAttempt ==
    \A i \in 1..Len(delays) :
        base_delay_min <= delays[i] /\ delays[i] <= base_delay_max

\* ------------------------------------------------------------------------
\* Claims about the collection of a Reddit run, under Spec
\* ------------------------------------------------------------------------
PostDate(i) == FromTimestamp(posts[i].created_utc)

\* C1: no two records of the posts list share an identifier, whatever the
\* pages of the sort modes, sub-windows and chunks brought.
C1_UniqueIds ==
    \A i, j \in 1..Len(posts) : i # j => posts[i].id # posts[j].id

\* a second in-range copy of a post collected in this run was served and skipped
C1_Witness ==
    /\ Len(posts) = NumIds
    /\ \E i \in 1..Len(posts) : posts[i].id \in skipped_seen
    /\ pc = "done"

\* C2: every record of the posts list, added by cursor pagination or by the
\* chunk driver, has its timestamp within [start_date, end_date].
C2_TimestampsInRange ==
    \A i \in 1..Len(posts) : start_date <= PostDate(i) /\ PostDate(i) <= end_date

\* a post stamped exactly end_date was accepted, on a machine off UTC
C2_Witness ==
    /\ utc_offset # 0
    /\ start_date < end_date
    /\ \E i \in 1..Len(posts) : PostDate(i) = end_date
    /\ \E i \in 1..Len(posts) : PostDate(i) = start_date

\* C3: a scraper constructed beside a saved checkpoint never adds a record
\* whose identifier is among the checkpoint's seen_ids.
C3_NoReaddAfterResume ==
    \A i \in 1..Len(posts) : posts[i].id \notin checkpoint_data

\* an in-range post with a checkpointed id was served and skipped, another added
C3_Witness ==
    /\ checkpoint_data # {}
    /\ skipped_seen \cap checkpoint_data # {}
    /\ posts # <<>>

\* ------------------------------------------------------------------------
\* Claims about the chunk driver, under SpecChunk
\* ------------------------------------------------------------------------
\* the windows so far: the first starts at start_date, each is 7 days wide or
\* clipped to end_date and not empty, each next starts where the previous
\* ended; once the driver has returned, the last one ends at end_date
WindowsChain ==
    /\ windows # <<>> => windows[1][1] = start_date
    /\ \A i \in 1..Len(windows) :
          /\ windows[i][1] < windows[i][2]
          /\ windows[i][2] = Min(windows[i][1] + timedelta(7), end_date)
    /\ \A i \in 2..Len(windows) : windows[i][1] = windows[i - 1][2]
    /\ (pc = "done" /\ start_date < end_date) =>
          (windows # <<>> /\ windows[Len(windows)][2] = end_date)
    /\ (pc = "done" /\ end_date - start_date = timedelta(14)) =>
          windows = << <<start_date, start_date + timedelta(7)>>,
                       <<start_date + timedelta(7), end_date>> >>

\* C4: the 7-day windows the chunk driver processes partition
\* [start_date, end_date) in increasing order, and the driver's loop ends.
C4_WindowsPartition ==
    /\ []WindowsChain
    /\ <>(pc \in {"done", "raised"})

\* the range 2024-01-01..2024-01-15 done: 14 days, two windows
C4_Witness ==
    /\ pc = "done"
    /\ end_date - start_date = timedelta(14)
    /\ Len(windows) = 2
    /\ posts # <<>>

\* ------------------------------------------------------------------------
\* Claims about the pagination loops, under SpecPages
\* ------------------------------------------------------------------------
LastPage == trace[Len(trace)]

\* C12: in a pagination loop the first request carries no cursor and each
\* later one the cursor the page before it supplied, one request per page; a
\* page of dated posts has all its acceptable posts taken, whether or not it
\* is the last; the loop goes on after such a page exactly when the page
\* supplies a cursor, and only a malformed page makes it raise.
C12_CursorChainFollowed ==
    /\ trace # <<>> => trace[1].cursor = NoCursor
    /\ \A i \in 2..Len(trace) :
          /\ trace[i - 1].outcome = "continue"
          /\ trace[i].cursor = trace[i - 1].next
    /\ \A i \in 1..Len(trace) :
          trace[i].page = "items" =>
              /\ trace[i].outcome = (IF Falsy(trace[i].next) THEN "break" ELSE "continue")
              /\ trace[i].offered \subseteq seen_ids
    /\ (trace # <<>> /\ LastPage.outcome = "continue") =>
          /\ pc \in {"pagination", "chunk", "cancelled"}
          /\ pages = Len(trace)
          /\ RequestCursor(after) = LastPage.next
    /\ (trace # <<>> /\ LastPage.outcome = "break") => pc # "raised"
    /\ pc = "raised" => LastPage.page \in {"malformed", "undated"}

\* pages A, B and C of dated posts, C without a cursor: three requests, then
\* the loop is over
C12_Witness ==
    /\ Len(trace) = 3
    /\ \A i \in 1..3 : trace[i].page = "items" /\ trace[i].offered # {}
    /\ trace[2].cursor # trace[3].cursor
    /\ trace[3].next = NoCursor
    /\ pages = 0
    /\ Len(posts) = NumIds

\* the page an iteration of a loop has just handled brought nothing
NothingFetched ==
    /\ pc \in {"pagination", "chunk"}
    /\ pc' # "cancelled"
    /\ trace'[Len(trace')].page \in {"failed", "falsy", "empty"}

\* C13: an iteration whose fetch returns None (or a falsy payload) or whose
\* page has no children ends its loop without raising, with no further
\* request for the window, and leaves posts and seen_ids as they were.
C13_EmptyPageEndsLoop ==
    [][NothingFetched =>
          /\ posts' = posts
          /\ seen_ids' = seen_ids
          /\ pc' # "raised"
          /\ trace'[Len(trace')].outcome = "break"
          /\ pages' = 0
          /\ after' = NoCursor]_vars

\* a second page that could not be fetched, after a page of accepted posts
C13_Witness ==
    /\ Len(trace) = 2
    /\ trace[1].offered # {}
    /\ trace[2].page = "failed"
    /\ posts # <<>>
    /\ pc = "pagination"

\* ------------------------------------------------------------------------
\* Claims about the periodic checkpoint, under SpecBulk
\* ------------------------------------------------------------------------
\* the count of the loop reached or passed a multiple of 100 on its i-th page
ReachedMultiple(i) ==
    trace[i].count \div checkpoint_every >
        (IF i = 1 THEN 0 ELSE trace[i - 1].count) \div checkpoint_every

\* C14: whenever the count of accepted records of a pagination loop reaches
\* or passes a multiple of 100 on a page and the loop requests another page,
\* a checkpoint was written in between.
C14_CheckpointEveryHundred ==
    \A i \in 1..(Len(trace) - 1) : ReachedMultiple(i) => trace[i].saved

\* ------------------------------------------------------------------------
\* The market scraper: scrape_all_markets and save_results
\* ------------------------------------------------------------------------
\* CONFIG["markets"]
Markets == <<"a101", "bim", "sok">>

\* market.upper()
Upper(market) ==
    CASE market = "a101" -> "A101" [] market = "bim" -> "BIM" [] market = "sok" -> "SOK"

\* the deals a scraper appends for a page: one per product card that has
\* both a title and a price
Deals(market, n) == [i \in 1..n |-> Upper(market)]

\* what a scraper makes of one fetch_html call: no deals when the call
\* returned None ("if not html"), else those of the n cards that parse
Scraped(out, market, n) == IF out.value = NoBody THEN <<>> ELSE Deals(market, n)

Requested(via, market, out, n) ==
    [via |-> via, market |-> market, fetched |-> out.value # NoBody,
     deals |-> Len(Scraped(out, market, n))]

FallsBack_Always(deals) == TRUE

\* if len(aggregator_deals) == 0
FallsBack(deals) == Len(deals) = 0

\* scrape_aktuel_urunler: one pass of "for market in CONFIG['markets']";
\* after the last one, all_deals.extend(aggregator_deals) and the choice of
\* the fallback in scrape_all_markets
ScrapeAktuelUrunler ==
    /\ mpc = "aggregator"
    /\ \E out \in HtmlOutcomes, n \in 0..MaxDeals :
          LET market == Markets[market_no]
              deals == aggregator_deals \o Scraped(out, market, n)
          IN  /\ out.act = "return"
              /\ requests' = Append(requests, Requested("aktuel-urunler", market, out, n))
              /\ aggregator_deals' = deals
              /\ IF market_no < Len(Markets)
                 THEN /\ market_no' = market_no + 1
                      /\ UNCHANGED <<mpc, all_deals>>
                 ELSE /\ all_deals' = all_deals \o deals
                      /\ mpc' = IF FallsBack(deals) THEN "sok" ELSE "save_results"
                      /\ UNCHANGED market_no
    /\ UNCHANGED <<fvars, rvars, results_file>>

\* a direct scraper called by scrape_all_markets: its one fetch_html call,
\* its deals appended to all_deals
ScrapeDirect(market, then) ==
    /\ \E out \in HtmlOutcomes, n \in 0..MaxDeals :
          /\ out.act = "return"
          /\ requests' = Append(requests, Requested("direct", market, out, n))
          /\ all_deals' = all_deals \o Scraped(out, market, n)
    /\ mpc' = then
    /\ UNCHANGED <<fvars, rvars, market_no, aggregator_deals, results_file>>

ScrapeSokDirect ==
    /\ mpc = "sok"
    /\ ScrapeDirect("sok", "bim")

ScrapeBimDirect ==
    /\ mpc = "bim"
    /\ ScrapeDirect("bim", "a101")

ScrapeA101Direct ==
    /\ mpc = "a101"
    /\ ScrapeDirect("a101", "save_results")

\* save_results: open(..., 'w') and the write of the dumped result, whatever
\* the number of deals; main() logs a failure and raises it again
SaveResults ==
    /\ mpc = "save_results"
    /\ \E o \in SaveOutcomes :
          /\ results_file' = WriteOutput(o, results_file, all_deals)
          /\ mpc' = IF o = "written" THEN "exit" ELSE "failed"
    /\ UNCHANGED <<fvars, rvars, market_no, aggregator_deals, all_deals, requests>>

\* main() of the market scraper, inside scrape_all_markets: all_deals = [],
\* scrape_aktuel_urunler about to fetch the first market
InitMarket ==
    /\ mpc = "aggregator"
    /\ market_no = 1
    /\ aggregator_deals = <<>>
    /\ all_deals = <<>>
    /\ requests = <<>>
    /\ results_file = AbsentOutput
    /\ NoScraper
    /\ NoFetchCall

NextMarket ==
    \/ ScrapeAktuelUrunler
    \/ ScrapeSokDirect
    \/ ScrapeBimDirect
    \/ ScrapeA101Direct
    \/ SaveResults

SpecMarket == InitMarket /\ [][NextMarket]_vars

\* ------------------------------------------------------------------------
\* Claims about loading the checkpoint, under SpecLoad
\* ------------------------------------------------------------------------
\* C15: constructing the scraper never raises; it starts with the seen_ids
\* of a valid checkpoint file, and with an empty seen set and the default
\* checkpoint when the file is missing, unreadable, not JSON or JSON of
\* another shape.
C15_LoadDefaultsUnlessValid ==
    [][pc = "main" =>
          /\ pc' = "ready"
          /\ IF checkpoint_file.state = "valid"
             THEN seen_ids' = checkpoint_file.seen_ids
             ELSE seen_ids' = {} /\ checkpoint_data' = {}]_vars

\* ------------------------------------------------------------------------
\* Claims about what a checkpoint holds, under Spec
\* ------------------------------------------------------------------------
PostIds == {posts[i].id : i \in 1..Len(posts)}

\* C16: a call of _save_checkpoint that writes the file writes seen_ids
\* holding the id of every post in self.posts and every id loaded from the
\* prior checkpoint, and posts_count equal to len(self.posts). (A call whose
\* open fails leaves the file as it was, one whose write fails leaves it
\* cut short.)
C16_CheckpointSummarisesPosts ==
    [][Len(saves') > Len(saves) =>
          \/ checkpoint_file' = checkpoint_file
          \/ checkpoint_file'.state = "corrupt"
          \/ /\ checkpoint_file'.state = "valid"
             /\ \A i \in 1..Len(posts') : posts'[i].id \in checkpoint_file'.seen_ids
             /\ checkpoint_data' \subseteq checkpoint_file'.seen_ids
             /\ checkpoint_file'.posts_count = Len(posts')]_vars

\* a resumed run wrote its checkpoint: the loaded ids and those of the posts
\* it accepted
C16_Witness ==
    /\ saves # <<>>
    /\ checkpoint_data # {}
    /\ posts # <<>>
    /\ checkpoint_file = ValidFile(checkpoint_data \cup PostIds, Len(posts))

\* C17: a run that gets to save_output called _save_checkpoint last with
\* the posts it ends with; that call, when it writes, leaves a file holding
\* the id of every post; and save_output, failing or not, accepts nothing
\* and leaves the checkpoint file as it is.
C17_FinalCheckpointBeforeOutput ==
    /\ [](pc \in {"save_output", "exit", "output_failed"} =>
            saves # <<>> /\ saves[Len(saves)] = Len(posts))
    /\ [][pc # "save_output" /\ pc' = "save_output" =>
            /\ Len(saves') = Len(saves) + 1
            /\ posts' = posts
            /\ \/ checkpoint_file' = checkpoint_file
               \/ checkpoint_file'.state = "corrupt"
               \/ /\ checkpoint_file'.state = "valid"
                  /\ PostIds \subseteq checkpoint_file'.seen_ids]_vars
    /\ [][pc = "save_output" =>
            /\ checkpoint_file' = checkpoint_file
            /\ seen_ids' = seen_ids
            /\ Len(posts') = Len(posts)]_vars

\* the output write failed after a final checkpoint that holds every post
C17_Witness ==
    /\ pc = "output_failed"
    /\ posts # <<>>
    /\ checkpoint_file.state = "valid"
    /\ PostIds \subseteq checkpoint_file.seen_ids
    /\ checkpoint_file.posts_count = Len(posts)
    /\ output_file.state # "written"

\* ------------------------------------------------------------------------
\* Claims about the ends of a run, under Spec
\* ------------------------------------------------------------------------
\* C18: a run that completes having accepted no post has written an empty
\* result set to the output file.
C18_EmptyResultStillWritten ==
    pc = "exit" /\ posts = <<>> => output_file = WrittenOutput(<<>>)

\* C19: a run cancelled between two requests has written a checkpoint that
\* holds the id of every post accepted before the cancellation.
C19_CheckpointOnCancel ==
    pc = "cancelled" =>
        /\ saves # <<>>
        /\ checkpoint_file.state = "valid" => PostIds \subseteq checkpoint_file.seen_ids

\* ------------------------------------------------------------------------
\* Claims about the fallback of the market scraper, under SpecMarket
\* ------------------------------------------------------------------------
\* the markets fetch_html was called for through the given site, in order
Targets(via) ==
    LET Through(r) == r.via = via
        rs == SelectSeq(requests, Through)
    IN  [i \in 1..Len(rs) |-> rs[i].market]

AggregatorDone == mpc # "aggregator"

IsPrefix(s, t) == Len(s) <= Len(t) /\ \A i \in 1..Len(s) : s[i] = t[i]

\* C20: a direct request is made only after the aggregator finished with
\* zero deals over all markets; the direct scrapers are called in the order
\* SOK, BIM, A101, once each, whatever the earlier ones brought; and when
\* scrape_all_markets is through, all three were called iff the aggregator
\* had zero deals, and none otherwise.
C20_FallbackIffAggregatorEmpty ==
    /\ IsPrefix(Targets("direct"), <<"sok", "bim", "a101">>)
    /\ Targets("direct") # <<>> =>
          /\ AggregatorDone
          /\ aggregator_deals = <<>>
          /\ \A i \in 1..Len(requests) :
                requests[i].via = "aktuel-urunler" => requests[i].deals = 0 /\ i <= Len(Markets)
    /\ AggregatorDone => Targets("aktuel-urunler") = Markets
    /\ mpc \in {"save_results", "exit", "failed"} =>
          Targets("direct") = (IF aggregator_deals = <<>>
                               THEN <<"sok", "bim", "a101">> ELSE <<>>)

\* the fallback ran to its end with SOK failing and BIM bringing deals
C20_Witness ==
    /\ mpc = "exit"
    /\ Len(requests) = 6
    /\ ~requests[4].fetched
    /\ requests[5].deals > 0
    /\ requests[6].market = "a101"
    /\ all_deals = Deals("bim", requests[5].deals) \o Deals("a101", requests[6].deals)

\* ------------------------------------------------------------------------
\* Runs of either script with their requests logged
\* ------------------------------------------------------------------------
\* a scraper constructed for a date range of two chunk windows, the second
\* of one day, on a machine on UTC, without a checkpoint file; the posts
\* served lie at the start of the range or of the second window
InitWindows ==
    /\ start_date = timedelta(1)
    /\ end_date = start_date + timedelta(chunk_days) + timedelta(1)
    /\ utc_offset = 0
    /\ checkpoint_file = MissingFile
    /\ feed \in Feeds({start_date, start_date + timedelta(chunk_days)})
    /\ trace = <<>>
    /\ chain_pages = MaxPages
    /\ counts = Uncounted
    /\ Construct

\* main() of the Reddit scraper or main() of the market scraper
InitRuns == InitWindows \/ InitMarket

NextRuns == Next \/ NextMarket

SpecRuns == InitRuns /\ [][NextRuns]_vars

\* ------------------------------------------------------------------------
\* Claims about failures and their siblings, under SpecRuns
\* ------------------------------------------------------------------------
\* the step is an iteration of a loop whose fetch returned None
FetchFailed(loop) ==
    /\ pc = loop
    /\ pc' # "cancelled"
    /\ trace' # <<>>
    /\ trace'[Len(trace')].page = "failed"

\* C21: a fetch that returns None leaves the posts as they are and the run
\* goes on with the sibling: the aggregator loop with the next market (all
\* three are fetched), scrape() with the next time filter or else the next
\* sort, the chunk driver with the window that starts where the failed one
\* ended; no window is ever started twice.
C21_FailureKeepsSiblings ==
    /\ [][mpc = "aggregator" /\ Len(requests') > Len(requests)
            /\ ~requests'[Len(requests')].fetched =>
              /\ aggregator_deals' = aggregator_deals
              /\ requests'[Len(requests')].market = Markets[Len(requests')]
              /\ IF market_no < Len(Markets)
                 THEN mpc' = "aggregator" /\ market_no' = market_no + 1
                 ELSE mpc' \in {"sok", "save_results"}]_vars
    /\ [][FetchFailed("pagination") =>
              /\ posts' = posts /\ seen_ids' = seen_ids
              /\ after' = NoCursor /\ pages' = 0
              /\ IF tf_no < Len(TimeFilters(Sorts[sort_no]))
                 THEN pc' = "pagination" /\ sort_no' = sort_no /\ tf_no' = tf_no + 1
                 ELSE IF sort_no < Len(Sorts)
                 THEN pc' = "pagination" /\ sort_no' = sort_no + 1 /\ tf_no' = 1
                 ELSE pc' = "final_checkpoint"]_vars
    /\ [][FetchFailed("chunk") =>
              /\ posts' = posts /\ seen_ids' = seen_ids
              /\ after' = NoCursor /\ pages' = 0
              /\ current_start' = current_end
              /\ IF current_end < end_date
                 THEN /\ pc' = "chunk"
                      /\ windows' = Append(windows, <<current_end, current_end'>>)
                      /\ current_end' > current_end
                 ELSE pc' = "done" /\ windows' = windows]_vars
    /\ [](\A i, j \in 1..Len(windows) : i < j => windows[i][1] < windows[j][1])

\* the fetch of the first window failed and the second window has started
C21_Witness ==
    /\ pc = "chunk"
    /\ Len(windows) = 2
    /\ pages = 0
    /\ trace # <<>>
    /\ LastPage.page = "failed"
    /\ windows[2][1] = windows[1][2]

\* ------------------------------------------------------------------------
\* Claims about rejected items and sub-windows, under SpecPages
\* ------------------------------------------------------------------------
\* the step is an iteration of a loop that received a page of dated posts,
\* each of them out of the date range (of the window, in a chunk) or seen
AllRejected ==
    /\ pc \in {"pagination", "chunk"}
    /\ pc' # "cancelled"
    /\ trace' # <<>>
    /\ trace'[Len(trace')].page = "items"
    /\ trace'[Len(trace')].offered \subseteq seen_ids

\* C22: a page whose items are all out of range or already seen changes
\* neither posts nor seen_ids and does not end the loop: when the page
\* supplies a cursor the loop takes it and requests the next page.
C22_RejectedPageGoesOn ==
    [][AllRejected =>
          /\ posts' = posts
          /\ seen_ids' = seen_ids
          /\ pc' # "raised"
          /\ IF Falsy(trace'[Len(trace')].next)
             THEN trace'[Len(trace')].outcome = "break"
             ELSE /\ trace'[Len(trace')].outcome = "continue"
                  /\ pc' = pc
                  /\ after' = trace'[Len(trace')].next
                  /\ pages' = pages + 1]_vars

\* a page of out-of-range posts was followed by a page that brought posts
C22_Witness ==
    /\ Len(trace) >= 2
    /\ trace[1].page = "items"
    /\ trace[1].offered = {}
    /\ trace[1].count = 0
    /\ trace[1].outcome = "continue"
    /\ trace[2].cursor = trace[1].next
    /\ trace[2].count > 0

\* the step ends a "while True" loop of scrape_old_reddit_pagination and
\* starts the next one
NextLoop == pc = "pagination" /\ pc' = "pagination" /\ <<sort_no, tf_no>>' # <<sort_no, tf_no>>

SubWindowed == Sorts[sort_no] \in {"top", "controversial"}

AppendedIds == {posts'[i].id : i \in (Len(posts) + 1)..Len(posts')}

\* C24: no step of a run removes an id from seen_ids, and the ids a step
\* adds are those of the posts it appends to self.posts, one id per post.
C24_SeenIdsOnlyGrow ==
    [][/\ seen_ids \subseteq seen_ids'
       /\ Len(posts') >= Len(posts)
       /\ seen_ids' \ seen_ids = AppendedIds
       /\ Cardinality(AppendedIds) = Len(posts') - Len(posts)]_vars

\* the chunk driver returned in a resumed run: seen_ids holds the loaded
\* ids and those of the posts appended since
C24_Witness ==
    /\ pc = "done"
    /\ windows # <<>>
    /\ posts # <<>>
    /\ checkpoint_data # {}
    /\ seen_ids = checkpoint_data \cup PostIds
    /\ Cardinality(seen_ids) = Cardinality(checkpoint_data) + Len(posts)

\* ------------------------------------------------------------------------
\* Claims about the date check of a chunk, under SpecRuns
\* ------------------------------------------------------------------------
\* post_date of the post id as the server holds it
ServedDate(id) == FromTimestamp(feed[id].created_utc)

\* C25: the posts an iteration of _scrape_chunk appends were unseen and
\* dated within [start, end) of its window, each post of a page of dated
\* posts that is dated so is in seen_ids afterwards, and the check takes a
\* post dated start and refuses one dated end.
C25_ChunkAcceptsHalfOpen ==
    /\ [][pc = "chunk" =>
            /\ \A id \in AppendedIds :
                  /\ id \notin seen_ids
                  /\ current_start <= ServedDate(id)
                  /\ ServedDate(id) < current_end
            /\ pc' # "cancelled" /\ trace' # <<>> /\ trace'[Len(trace')].page = "items" =>
                  trace'[Len(trace')].offered \subseteq seen_ids']_vars
    /\ [](pc = "chunk" =>
            /\ InChunk(current_start, current_start, current_end)
            /\ ~InChunk(current_end, current_start, current_end))

\* the first window took the post dated at its start and the second window
\* the post dated at the end of the first, both served to the first
C25_Witness ==
    /\ Len(windows) = 2
    /\ Len(posts) = 2
    /\ FromTimestamp(posts[1].created_utc) = windows[1][1]
    /\ FromTimestamp(posts[2].created_utc) = windows[1][2]
    /\ skipped_seen = {}

\* ------------------------------------------------------------------------
\* Claims about the backoff of fetch_html, under SpecFetch
\* ------------------------------------------------------------------------
\* seconds fetch_html slept between response i-1 and attempt i, the
\* random_delay of attempt i apart
Backoff(i) == gaps[i] - delays[i]

\* C26: in fetch_html the attempt after a 429 received with retries = k
\* follows a wait of (k+1)*10 seconds, longer than the wait of any earlier
\* 429 of the call; a timeout is followed by no wait; and retries counts the
\* retries of both kinds, one per retry: attempt i runs with retries = i-1.
C26_EscalatingBackoff ==
    fetcher = "market" =>
        /\ \A i \in 2..Len(history) :
              /\ history[i - 1].kind \in {"429", "timeout"}
              /\ i - 1 <= CONFIG_max_retries
              /\ Backoff(i) = (IF history[i - 1].kind = "429" THEN (i - 1) * 10 ELSE 0)
        /\ \A i, j \in 2..Len(history) :
              i < j /\ history[i - 1].kind = "429" /\ history[j - 1].kind = "429" =>
                  Backoff(i) < Backoff(j)
        /\ attempt = (IF fpc = "running" THEN Len(history)
                      ELSE IF history = <<>> THEN 0 ELSE Len(history) - 1)
        /\ fpc = "running" /\ history # <<>> =>
              slept = (IF LastResp.kind = "429" THEN Len(history) * 10 ELSE 0)

\* a 429, a timeout and a 429 again: waits of 10 and then 30 seconds
C26_Witness ==
    /\ fetcher = "market"
    /\ Len(history) = 4
    /\ history[1].kind = "429"
    /\ history[2].kind = "timeout"
    /\ history[3].kind = "429"
    /\ Backoff(2) = 10
    /\ Backoff(3) = 0
    /\ Backoff(4) = 30

\* ------------------------------------------------------------------------
\* A Reddit run request by request
\* ------------------------------------------------------------------------
MaySend_Eager == fpc \in {"idle", "running", "awaiting"}

\* the one task of the run is at a session.get: at the first attempt of the
\* _fetch_json call of an iteration, or at a retry. "data = await ..." keeps
\* it from getting there while a call has not returned or a page is not done
MaySend == fpc \in {"idle", "running"}

\* _fetch_json: session.get sends the request of an attempt
SendRequest ==
    /\ pc = "pagination"
    /\ MaySend
    /\ attempt < max_retries
    /\ in_flight < max_retries
    /\ fpc' = "awaiting"
    /\ in_flight' = in_flight + 1
    /\ UNCHANGED <<fetcher, attempt, history, gaps, slept, delays, result, raised,
                   rvars, mvars>>

\* _fetch_json: the response of the attempt arrives (or the timeout, or the
\* error) and is handled, up to the return or to the next session.get
ReceiveResponse ==
    /\ pc = "pagination"
    /\ fpc = "awaiting"
    /\ in_flight' = in_flight - 1
    /\ \E resp \in RunResponses :
          FetchStep(resp, FetchJsonIter(resp), slept, 0, attempt + 1 >= max_retries)
    /\ UNCHANGED <<rvars, mvars>>

\* what the _fetch_json call that ended came back with
Fetched ==
    [act |-> IF fpc = "raised" THEN "raise" ELSE "return", value |-> result,
     exc |-> raised, used |-> TRUE]

\* the rest of the iteration, _fetch_json having returned
ProcessPage ==
    /\ pc = "pagination"
    /\ fpc \in {"returned", "raised"}
    /\ PaginationIteration(Fetched)
    /\ fpc' = "idle"
    /\ attempt' = 0
    /\ history' = <<>>
    /\ gaps' = <<>>
    /\ slept' = 0
    /\ delays' = <<>>
    /\ result' = NoBody
    /\ raised' = None
    /\ UNCHANGED <<fetcher, in_flight, mvars, start_date, end_date, utc_offset,
                   checkpoint_data, current_start, current_end, windows, feed,
                   chain_pages, output_file>>

\* a scraper constructed for day 1 to day 2 on a machine on UTC, without a
\* checkpoint file, before a server whose posts are of day 1
InitFlight ==
    /\ start_date = timedelta(1)
    /\ end_date = timedelta(MaxDay)
    /\ utc_offset = 0
    /\ checkpoint_file = MissingFile
    /\ feed = [i \in Ids |-> Dated(start_date)]
    /\ trace = <<>>
    /\ chain_pages = MaxPages
    /\ counts = Uncounted
    /\ Construct

NextFlight ==
    \/ Scrape
    \/ SendRequest
    \/ ReceiveResponse
    \/ ProcessPage
    \/ FinalCheckpoint
    \/ SaveOutput

SpecFlight == InitFlight /\ [][NextFlight]_vars

\* ------------------------------------------------------------------------
\* Claims about the order of requests, under SpecFlight
\* ------------------------------------------------------------------------
\* C27: never more than one request is in flight, and the step that sends
\* a request finds none in flight and no fetched page unprocessed; when it
\* opens an iteration after the first of a loop, the page before it was
\* processed to its end: its posts are in seen_ids and the request carries
\* the cursor that page supplied.
C27_OneRequestAtATime ==
    /\ [](in_flight <= 1 /\ (in_flight = 1 <=> fpc = "awaiting"))
    /\ [][in_flight' > in_flight =>
            /\ in_flight = 0
            /\ fpc \in {"idle", "running"}
            /\ fpc = "idle" /\ pages > 0 =>
                  /\ Len(trace) = pages
                  /\ LastPage.outcome = "continue"
                  /\ LastPage.offered \subseteq seen_ids
                  /\ after = LastPage.next]_vars

\* the retry of the request for a second page is in flight
C27_Witness ==
    /\ in_flight = 1
    /\ pages = 1
    /\ attempt = 1
    /\ posts # <<>>
    /\ after # NoCursor

\* ------------------------------------------------------------------------
\* Claims about the counts the calls return, under SpecCounts
\* ------------------------------------------------------------------------
\* a scraper constructed for a date range of two chunk windows, the second
\* of one day, on a machine on UTC, without a checkpoint file; the posts
\* served lie at the start of the range, at the start of the second window
\* or past the end of the range; the counts returned are kept
InitCounts ==
    /\ start_date = timedelta(1)
    /\ end_date = start_date + timedelta(chunk_days) + timedelta(1)
    /\ utc_offset = 0
    /\ checkpoint_file = MissingFile
    /\ feed \in Feeds({start_date, start_date + timedelta(chunk_days), end_date + 1})
    /\ trace = Unobserved
    /\ chain_pages = MaxPages
    /\ counts = <<>>
    /\ Construct

SpecCounts == InitCounts /\ [][Next]_vars

\* count_new + count_hot + ... of the counts returned so far
RECURSIVE SumOf(_)
SumOf(ns) == IF ns = <<>> THEN 0 ELSE ns[1] + SumOf(Tail(ns))

\* C28: the count a pagination call or a _scrape_chunk call returns is the
\* number of posts the call appended, the running total of a call is the
\* number it has appended so far, and when the five calls of scrape() have
\* returned (and when the chunk driver has) len(posts) is the sum of the
\* counts returned.
C28_CountsAreAppends ==
    /\ [][counts' # counts =>
            /\ Len(counts') = Len(counts) + 1
            /\ counts'[Len(counts')] = Len(posts') - SumOf(counts)]_vars
    /\ [](pc = "pagination" =>
            /\ Len(counts) = sort_no - 1
            /\ Len(posts) = SumOf(counts) + total_count)
    /\ [](pc \in {"final_checkpoint", "save_output"} =>
            /\ Len(counts) = Len(Sorts)
            /\ Len(posts) = SumOf(counts))
    /\ [](pc = "chunk" =>
            /\ total_count = SumOf(counts)
            /\ Len(posts) = total_count + count)
    /\ [](pc = "done" =>
            /\ Len(counts) = Len(windows)
            /\ total_count = SumOf(counts)
            /\ Len(posts) = total_count)

\* scrape() returns after two of its calls brought posts and another none
C28_Witness ==
    /\ pc = "save_output"
    /\ Len(counts) = Len(Sorts)
    /\ counts[1] > 0
    /\ counts[2] = 0
    /\ counts[3] > 0
    /\ Len(posts) = counts[1] + counts[3] + counts[4] + counts[5]

====
